---- MODULE Spec2Model ----
(***************************************************************************)
(* The Excel Macro Dashboard (src/app/app.py): one Streamlit script that   *)
(* loads an uploaded workbook with openpyxl and pandas, shows per-sheet    *)
(* complexity metrics and formula listings, and offers a full-workbook and *)
(* a per-sheet download.  Every user interaction re-runs main() from the   *)
(* top, so every action below is one complete run of main().              *)
(***************************************************************************)
EXTENDS Integers, Sequences, FiniteSets, TLC

\* ---------------------------------------------------------------- bounds
MaxRows == 2
MaxSheets == 2
MaxFormulas == 3
\* The columns every modelled sheet spans (ragged rows are padded).
Columns == <<"A", "B">>
SheetNames == <<"Data", "Empty", "Sheet3", "Sheet4">>

\* ------------------------------------------------------- python values
None == [ty |-> "none", v |-> ""]
NaN == [ty |-> "nan", v |-> ""]
Num(s) == [ty |-> "n", v |-> s]
Str(s) == [ty |-> "s", v |-> s]

Max(a, b) == IF a >= b THEN a ELSE b

StartsWith(s, p) == Len(s) >= Len(p) /\ SubSeq(s, 1, Len(p)) = p
EndsWith(s, p) == Len(s) >= Len(p) /\ SubSeq(s, Len(s) - Len(p) + 1, Len(s)) = p

\* ------------------------------------------------- the uploaded container
\* A cell as stored in the file: f is the formula source ("" when the cell
\* has none), v the stored literal or the cached result (None when absent).
EmptyCell == [f |-> "", v |-> None]
FileCells ==
    { EmptyCell,
      [f |-> "", v |-> Num("5")],
      [f |-> "", v |-> Str("=1+1")],
      [f |-> "=A1*2", v |-> Num("10")],
      [f |-> "=B1", v |-> None] }

FileRows == [1..Len(Columns) -> FileCells]
Grids == UNION { [1..r -> FileRows] : r \in 0..MaxRows }
SampleGrid ==
    << <<[f |-> "", v |-> Num("5")], [f |-> "=A1*2", v |-> Num("10")]>>,
       <<[f |-> "=B1", v |-> None], [f |-> "", v |-> Str("=1+1")]>> >>

\* A sheet body: its grid, or a sheet part the parser cannot read.
Malformed == [malformed |-> TRUE, grid |-> <<>>]
Bodies == { [malformed |-> FALSE, grid |-> g] : g \in Grids } \cup { Malformed }
SmallBodies ==
    { [malformed |-> FALSE, grid |-> <<>>],
      [malformed |-> FALSE, grid |-> SampleGrid],
      Malformed }
Named(bodies) ==
    [i \in 1..Len(bodies) |->
       [name |-> SheetNames[i], malformed |-> bodies[i].malformed,
        grid |-> bodies[i].grid]]
\* Workbooks of one sheet with any grid, and of several sheets with few.
RichLists == { Named(<<b>>) : b \in Bodies }
SmallLists ==
    UNION { { Named(t) : t \in [1..n -> SmallBodies] } : n \in 1..MaxSheets }

NoVba == "<no vbaProject.bin>"
Containers ==
    { [name |-> "book.xlsx", vba |-> NoVba],
      [name |-> "book.xlsm", vba |-> NoVba],
      [name |-> "book.xlsm", vba |-> "vbaProject.bin"],
      [name |-> "BOOK.XLSM", vba |-> "vbaProject.bin"] }
OkFiles ==
    { [name |-> c.name, kind |-> "ok", vba |-> c.vba, sheets |-> s]
      : c \in Containers, s \in SmallLists }
        \cup { [name |-> "book.xlsm", kind |-> "ok", vba |-> "vbaProject.bin",
                sheets |-> s] : s \in RichLists }
BadFiles ==
    { [name |-> "book.xlsx", kind |-> k, vba |-> NoVba, sheets |-> <<>>]
      : k \in {"corrupt", "empty", "protected"} }
        \cup { [name |-> "book.xls", kind |-> "legacy", vba |-> NoVba, sheets |-> <<>>] }
Files == OkFiles \cup BadFiles
NoFile == [name |-> "", kind |-> "none", vba |-> NoVba, sheets |-> <<>>]

\* ------------------------------------------------------------- openpyxl
\* openpyxl.load_workbook(..., data_only=False, keep_vba=True): a formula
\* cell keeps its source text as value and data type 'f'; the cached result
\* is not read.
Cell(fc, r, c) ==
    [coordinate |-> Columns[c] \o ToString(r),
     value |-> IF fc.f # "" THEN Str(fc.f) ELSE fc.v,
     data_type |-> IF fc.f # "" THEN "f" ELSE IF fc.v.ty = "s" THEN "s" ELSE "n"]

Worksheet(sh) ==
    [title |-> sh.name,
     rows |-> [r \in 1..Len(sh.grid) |->
                 [c \in 1..Len(sh.grid[r]) |-> Cell(sh.grid[r][c], r, c)]]]

\* keep_vba=True attaches a copy of the archive to every workbook read, with
\* or without a VBA project in it.
NoneWorkbook ==
    [none |-> TRUE, sheetnames |-> <<>>, worksheets |-> <<>>,
     vba_archive |-> [attached |-> FALSE, vbaProject |-> NoVba]]
load_workbook(f) ==
    [none |-> FALSE,
     sheetnames |-> [i \in 1..Len(f.sheets) |-> f.sheets[i].name],
     worksheets |-> [i \in 1..Len(f.sheets) |-> Worksheet(f.sheets[i])],
     vba_archive |-> [attached |-> TRUE, vbaProject |-> f.vba]]

\* What makes the parse raise: an unreadable container, or any one sheet
\* part that cannot be parsed.
Raises(f) ==
    \/ f.kind # "ok"
    \/ \E i \in 1..Len(f.sheets) : f.sheets[i].malformed

\* --------------------------------------------------------------- pandas
\* pd.read_excel(..., sheet_name=None, engine='openpyxl') reads values only
\* (cached results for formulas), drops trailing empty cells and rows, takes
\* the first row as header and pads the rest to the widest row.
RowWidth(row) ==
    LET used == { c \in 1..Len(row) : row[c].v # None }
    IN IF used = {} THEN 0 ELSE CHOOSE c \in used : \A d \in used : d <= c
LastDataRow(grid) ==
    LET used == { r \in 1..Len(grid) : RowWidth(grid[r]) > 0 }
    IN IF used = {} THEN 0 ELSE CHOOSE r \in used : \A q \in used : q <= r
DataWidth(grid) ==
    LET ws == { RowWidth(grid[r]) : r \in 1..Len(grid) }
    IN IF ws = {} THEN 0 ELSE CHOOSE w \in ws : \A x \in ws : x <= w
DataFrame(sh) ==
    LET last == LastDataRow(sh.grid)
        width == DataWidth(sh.grid)
    IN IF last = 0
       THEN [columns |-> <<>>, values |-> <<>>]
       ELSE [columns |->
                [c \in 1..width |->
                   IF sh.grid[1][c].v = None THEN Str("Unnamed") ELSE sh.grid[1][c].v],
             values |->
                [r \in 1..(last - 1) |->
                   [c \in 1..width |->
                      IF sh.grid[r + 1][c].v = None THEN NaN ELSE sh.grid[r + 1][c].v]]]
NoneData == [none |-> TRUE, frames |-> <<>>]
read_excel(f) ==
    [none |-> FALSE, frames |-> [i \in 1..Len(f.sheets) |-> DataFrame(f.sheets[i])]]

DfLen(df) == Len(df.values)
DfCols(df) == Len(df.columns)
DfEmpty(df) == DfLen(df) = 0 \/ DfCols(df) = 0

\* ------------------------------------------------------ load_excel_file
NoneNames == [none |-> TRUE, items |-> <<>>]
\* Variant: a failed parse falls back to a blank workbook and says nothing.
load_excel_file_blank(f) ==
    IF Raises(f)
    THEN [workbook |-> [none |-> FALSE, sheetnames |-> <<"Sheet">>,
                        worksheets |-> <<[title |-> "Sheet", rows |-> <<>>]>>,
                        vba_archive |-> [attached |-> FALSE, vbaProject |-> NoVba]],
          sheet_names |-> [none |-> FALSE, items |-> <<"Sheet">>],
          excel_data |-> [none |-> FALSE,
                          frames |-> <<[columns |-> <<>>, values |-> <<>>]>>],
          errors |-> <<>>]
    ELSE [workbook |-> load_workbook(f),
          sheet_names |-> [none |-> FALSE, items |-> load_workbook(f).sheetnames],
          excel_data |-> read_excel(f), errors |-> <<>>]
load_excel_file(f) ==
    IF Raises(f)
    THEN [workbook |-> NoneWorkbook, sheet_names |-> NoneNames,
          excel_data |-> NoneData, errors |-> <<"Error loading Excel file">>]
    ELSE [workbook |-> load_workbook(f),
          sheet_names |-> [none |-> FALSE, items |-> load_workbook(f).sheetnames],
          excel_data |-> read_excel(f), errors |-> <<>>]

\* -------------------------------------------------- display_macro_info
\* A ZipFile object is truthy whatever it holds.
display_macro_info(workbook) ==
    IF workbook.vba_archive.attached
    THEN "Macro-enabled Excel file detected"
    ELSE "Standard Excel file (no macros detected)"

\* ------------------------------------------------ worksheet.iter_rows()
RECURSIVE Flatten(_, _)
Flatten(rows, r) ==
    IF r > Len(rows) THEN <<>> ELSE rows[r] \o Flatten(rows, r + 1)
iter_rows(worksheet) == Flatten(worksheet.rows, 1)

\* ----------------------------------------------- display_formulas_info
ComplexThreshold == 50
NoStats == [total |-> 0, unique |-> 0, complex |-> 0]
\* Variant: a formula of exactly the threshold length counts as complex.
FormulaStats_atleast(formulas) ==
    [total |-> Len(formulas),
     unique |-> Cardinality({ formulas[i].Formula : i \in 1..Len(formulas) }),
     complex |->
        Cardinality({ i \in 1..Len(formulas) :
                        Len(formulas[i].Formula.v) >= ComplexThreshold })]
FormulaStats(formulas) ==
    [total |-> Len(formulas),
     unique |-> Cardinality({ formulas[i].Formula : i \in 1..Len(formulas) }),
     complex |->
        Cardinality({ i \in 1..Len(formulas) :
                        Len(formulas[i].Formula.v) > ComplexThreshold })]

\* The attributes an openpyxl cell answers to; reading any other raises
\* AttributeError.
HasAttr(cell, name) == name \in DOMAIN cell

RECURSIVE ScanFormulas(_, _, _)
ScanFormulas(cells, i, formulas) ==
    IF i > Len(cells) THEN [raised |-> FALSE, formulas |-> formulas]
    ELSE LET cell == cells[i]
         IN IF cell.data_type = "f"
            THEN IF ~HasAttr(cell, "displayed_value")
                 THEN [raised |-> TRUE, formulas |-> formulas]
                 ELSE ScanFormulas(cells, i + 1,
                        Append(formulas,
                          [Cell |-> cell.coordinate,
                           Formula |-> cell.value,
                           CalculatedValue |-> cell["displayed_value"],
                           DataType |-> "Formula"]))
            ELSE ScanFormulas(cells, i + 1, formulas)

NoFormulaInfo == [status |-> "not run", formulas |-> <<>>, stats |-> NoStats]
\* What the function shows once the scan has ended normally.
show_formulas(formulas) ==
    IF formulas # <<>>
    THEN [status |-> "listed", formulas |-> formulas, stats |-> FormulaStats(formulas)]
    ELSE [status |-> "No formulas found", formulas |-> <<>>, stats |-> NoStats]
display_formulas_info(workbook, s) ==
    LET scan == ScanFormulas(iter_rows(workbook.worksheets[s]), 1, <<>>)
    IN IF scan.raised
       THEN [status |-> "Error reading formulas", formulas |-> <<>>, stats |-> NoStats]
       ELSE show_formulas(scan.formulas)

\* --------------------------------------------- analyze_sheet_complexity
RECURSIVE CountCells(_, _, _)
CountCells(cells, i, n) ==
    IF i > Len(cells) THEN n
    ELSE LET cell == cells[i]
         IN CountCells(cells, i + 1,
              IF cell.value = None
              THEN [n EXCEPT !.empty_count = @ + 1]
              ELSE IF cell.data_type = "f"
              THEN [n EXCEPT !.formula_count = @ + 1]
              ELSE [n EXCEPT !.value_count = @ + 1])

\* A float quotient kept exact, as numerator over denominator; dividing by
\* zero raises ZeroDivisionError.
NoScore == [num |-> 0, den |-> 0]
\* Variant: the denominator without its floor.
TotalSlots_nofloor(df) == DfLen(df) * DfCols(df)
TotalSlots(df) == Max(1, DfLen(df) * DfCols(df))
NoMetrics ==
    [status |-> "not run", data_cells |-> 0, formulas |-> 0, empty_count |-> 0,
     total_cells |-> 0, score |-> NoScore]
\* Variant: formulas weighted like literals.
analyze_sheet_complexity_unweighted(df, workbook, s) ==
    LET n == CountCells(iter_rows(workbook.worksheets[s]), 1,
               [formula_count |-> 0, value_count |-> 0, empty_count |-> 0])
    IN [status |-> "shown",
        data_cells |-> n.value_count,
        formulas |-> n.formula_count,
        empty_count |-> n.empty_count,
        total_cells |-> IF ~DfEmpty(df) THEN DfLen(df) * DfCols(df) ELSE 0,
        score |-> [num |-> (n.formula_count + n.value_count) * 100,
                   den |-> TotalSlots(df)]]
analyze_sheet_complexity(df, workbook, s) ==
    LET n == CountCells(iter_rows(workbook.worksheets[s]), 1,
               [formula_count |-> 0, value_count |-> 0, empty_count |-> 0])
        den == TotalSlots(df)
        shown == [status |-> "shown",
                  data_cells |-> n.value_count,
                  formulas |-> n.formula_count,
                  empty_count |-> n.empty_count,
                  total_cells |-> IF ~DfEmpty(df) THEN DfLen(df) * DfCols(df) ELSE 0,
                  score |-> [num |-> (n.formula_count * 2 + n.value_count) * 100,
                             den |-> den]]
    IN IF den = 0
       THEN [shown EXCEPT !.status = "Error analyzing sheet complexity",
                          !.score = NoScore]
       ELSE shown

\* ------------------------------------------------------- workbook.save
\* openpyxl writes a formula cell as its source with no cached result, and
\* copies the attached archive's VBA project when there is one.
SavedCell(cell) ==
    IF cell.data_type = "f"
    THEN [f |-> cell.value.v, v |-> None]
    ELSE [f |-> "", v |-> cell.value]
SheetPart(worksheet) ==
    [kind |-> "sheet", name |-> worksheet.title, payload |-> NoVba,
     grid |-> [r \in 1..Len(worksheet.rows) |->
                 [c \in 1..Len(worksheet.rows[r]) |-> SavedCell(worksheet.rows[r][c])]]]
VbaPart(workbook) ==
    [kind |-> "vba", name |-> "", payload |-> workbook.vba_archive.vbaProject,
     grid |-> <<>>]
Parts(workbook) ==
    [i \in 1..Len(workbook.worksheets) |-> SheetPart(workbook.worksheets[i])]
        \o (IF workbook.vba_archive.attached
                /\ workbook.vba_archive.vbaProject # NoVba
            THEN <<VbaPart(workbook)>> ELSE <<>>)
\* The write raises after `written` parts have reached the buffer; with all
\* of them written it returns normally.
save(workbook, written) ==
    [raised |-> written < Len(Parts(workbook)),
     output |-> SubSeq(Parts(workbook), 1, written)]

\* The container a browser receives from a download link.
Package(filename, data) ==
    LET sheets == SelectSeq(data, LAMBDA p : p.kind = "sheet")
        vba == SelectSeq(data, LAMBDA p : p.kind = "vba")
    IN [name |-> filename, kind |-> "ok",
        vba |-> IF vba = <<>> THEN NoVba ELSE vba[1].payload,
        sheets |-> [i \in 1..Len(sheets) |->
                      [name |-> sheets[i].name, malformed |-> FALSE,
                       grid |-> sheets[i].grid]]]

\* ------------------------------------------------- create_download_link
XLSM == "application/vnd.ms-excel.sheet.macroEnabled.12"
XLSX == "application/vnd.openxmlformats-officedocument.spreadsheetml.sheet"
NoLink == [none |-> TRUE, mime |-> "", download |-> "", data |-> <<>>]
\* Variant: the link is built from whatever reached the buffer.
create_download_link_partial(workbook, filename, written) ==
    [href |-> [none |-> FALSE,
               mime |-> IF EndsWith(filename, ".xlsm") THEN XLSM ELSE XLSX,
               download |-> filename,
               data |-> save(workbook, written).output],
     errors |-> IF save(workbook, written).raised
                THEN <<"Error creating download link">> ELSE <<>>]
create_download_link(workbook, filename, written) ==
    LET w == save(workbook, written)
    IN IF w.raised
       THEN [href |-> NoLink, errors |-> <<"Error creating download link">>]
       ELSE [href |-> [none |-> FALSE,
                       mime |-> IF EndsWith(filename, ".xlsm") THEN XLSM ELSE XLSX,
                       download |-> filename,
                       data |-> w.output],
             errors |-> <<>>]

\* ------------------------------------- main: "Download <sheet> only"
\* openpyxl's cell value setter: a string of more than one character that
\* starts with "=" becomes a formula cell.
BoundCell(value, r, c) ==
    [coordinate |-> Columns[c] \o ToString(r),
     value |-> value,
     data_type |-> IF value.ty = "s"
                   THEN IF Len(value.v) > 1 /\ StartsWith(value.v, "=")
                        THEN "f" ELSE "s"
                   ELSE "n"]
\* openpyxl.Workbook(): one sheet, no archive attached.
export_sheet(df, sheet_name) ==
    LET new_wb ==
          [none |-> FALSE,
           sheetnames |-> <<sheet_name>>,
           worksheets |->
              << [title |-> sheet_name,
                  rows |-> [r \in 1..DfLen(df) |->
                              [c \in 1..Len(df.values[r]) |->
                                 BoundCell(df.values[r][c], r, c)]]] >>,
           vba_archive |-> [attached |-> FALSE, vbaProject |-> NoVba]]
    IN [none |-> FALSE, mime |-> XLSX, download |-> sheet_name \o ".xlsx",
        data |-> save(new_wb, Len(Parts(new_wb))).output]

\* ------------------------------------------------------------------ main
NoButton == [kind |-> "none", i |-> 0]
Truthy(l) == ~l.workbook.none /\ ~l.sheet_names.none /\ Len(l.sheet_names.items) > 0
                /\ ~l.excel_data.none /\ Len(l.excel_data.frames) > 0

Tab(l, s) ==
    LET df == l.excel_data.frames[s]
    IN IF ~DfEmpty(df)
       THEN [sheet_name |-> l.sheet_names.items[s], status |-> "shown",
             metrics |-> analyze_sheet_complexity(df, l.workbook, s),
             formula_info |-> display_formulas_info(l.workbook, s)]
       ELSE [sheet_name |-> l.sheet_names.items[s], status |-> "This sheet is empty",
             metrics |-> NoMetrics, formula_info |-> NoFormulaInfo]

\* One run of the script on the uploaded file with `button` pressed; l is
\* what load_excel_file returned.
main(f, l, button, written) ==
    IF f = NoFile
    THEN [load_calls |-> 0, errors |-> <<>>, macro_info |-> "",
          download_link |-> NoLink, tabs |-> <<>>, sheet_link |-> NoLink]
    ELSE IF Truthy(l)
    THEN [load_calls |-> 1,
          errors |->
             l.errors \o (IF button.kind = "complete"
                          THEN create_download_link(l.workbook, f.name, written).errors
                          ELSE <<>>),
          macro_info |-> display_macro_info(l.workbook),
          download_link |->
             IF button.kind = "complete"
             THEN create_download_link(l.workbook, f.name, written).href
             ELSE NoLink,
          tabs |-> [s \in 1..Len(l.sheet_names.items) |-> Tab(l, s)],
          sheet_link |->
             IF button.kind = "sheet"
             THEN export_sheet(l.excel_data.frames[button.i],
                               l.sheet_names.items[button.i])
             ELSE NoLink]
    ELSE [load_calls |-> 1, errors |-> l.errors, macro_info |-> "",
          download_link |-> NoLink, tabs |-> <<>>, sheet_link |-> NoLink]

\* ----------------------------------------------------------------- state
VARIABLES
    uploaded_file,   \* the file held by the uploader widget, or NoFile
    button,          \* the button whose press started the last run
    workbook,        \* load_excel_file's results in the last run
    sheet_names,
    excel_data,
    load_calls,      \* calls of load_excel_file in the last run
    errors,          \* st.error messages of the last run, outside the tabs
    macro_info,
    download_link,   \* the full-workbook link rendered by the last run
    tabs,            \* what each sheet tab shows
    sheet_link,      \* the single-sheet link rendered by the last run
    sheet,           \* a sheet handed to analyze_sheet_complexity directly
    metrics,
    formulas,        \* a record list handed to the statistics directly
    formula_info

vars == <<uploaded_file, button, workbook, sheet_names, excel_data, load_calls,
          errors, macro_info, download_link, tabs, sheet_link,
          sheet, metrics, formulas, formula_info>>
session == <<uploaded_file, button, workbook, sheet_names, excel_data, load_calls,
             errors, macro_info, download_link, tabs, sheet_link>>

NoSheet == [name |-> "", malformed |-> FALSE, grid |-> <<>>]

Welcome ==
    /\ uploaded_file = NoFile
    /\ button = NoButton
    /\ workbook = NoneWorkbook
    /\ sheet_names = NoneNames
    /\ excel_data = NoneData
    /\ load_calls = 0
    /\ errors = <<>>
    /\ macro_info = ""
    /\ download_link = NoLink
    /\ tabs = <<>>
    /\ sheet_link = NoLink

Init ==
    /\ Welcome
    /\ sheet = NoSheet /\ metrics = NoMetrics
    /\ formulas = <<>> /\ formula_info = NoFormulaInfo

NoLoad ==
    [workbook |-> NoneWorkbook, sheet_names |-> NoneNames,
     excel_data |-> NoneData, errors |-> <<>>]
Run(f, b, written) ==
    \E l \in {IF f = NoFile THEN NoLoad ELSE load_excel_file(f)} :
    \E m \in {main(f, l, b, written)} :
       /\ uploaded_file' = f
       /\ button' = b
       /\ workbook' = l.workbook
       /\ sheet_names' = l.sheet_names
       /\ excel_data' = l.excel_data
       /\ load_calls' = m.load_calls
       /\ errors' = m.errors
       /\ macro_info' = m.macro_info
       /\ download_link' = m.download_link
       /\ tabs' = m.tabs
       /\ sheet_link' = m.sheet_link
       /\ UNCHANGED <<sheet, metrics, formulas, formula_info>>

\* The user picks a file in the sidebar.
Upload ==
    /\ uploaded_file = NoFile
    /\ \E f \in Files : Run(f, NoButton, 0)

\* The user presses "Download Complete File"; the write may fail part-way.
ClickDownloadComplete ==
    /\ uploaded_file # NoFile
    /\ ~workbook.none
    /\ \E written \in 0..Len(Parts(workbook)) :
          Run(uploaded_file, [kind |-> "complete", i |-> 0], written)

\* The user presses "Download <sheet> only" in a tab that shows data.
ClickDownloadSheet ==
    /\ uploaded_file # NoFile
    /\ \E s \in 1..Len(tabs) :
          /\ tabs[s].status = "shown"
          /\ Run(uploaded_file, [kind |-> "sheet", i |-> s], 0)

\* The user removes the file: the welcome page again.
RemoveFile ==
    /\ uploaded_file # NoFile
    /\ Run(NoFile, NoButton, 0)

Next == Upload \/ ClickDownloadComplete \/ ClickDownloadSheet \/ RemoveFile
Spec == Init /\ [][Next]_vars

\* ------------------------------------- analyze_sheet_complexity on a sheet
\* The analysis applied to every one-sheet workbook the loader can read.
Sheets == { Named(<<b>>)[1] : b \in Bodies \ {Malformed} }
SheetFile(sh) ==
    [name |-> "book.xlsx", kind |-> "ok", vba |-> NoVba, sheets |-> <<sh>>]

InitAnalyze ==
    /\ Welcome
    /\ sheet \in Sheets /\ metrics = NoMetrics
    /\ formulas = <<>> /\ formula_info = NoFormulaInfo

Analyze ==
    /\ metrics = NoMetrics
    /\ \E l \in {load_excel_file(SheetFile(sheet))} :
          metrics' = analyze_sheet_complexity(l.excel_data.frames[1], l.workbook, 1)
    /\ UNCHANGED <<session, sheet, formulas, formula_info>>

NextAnalyze == Analyze
SpecAnalyze == InitAnalyze /\ [][NextAnalyze]_vars

\* ------------------------------------------ the statistics on a record list
Formula50 == "=SUM(A1:A10)+SUM(B1:B10)+SUM(C1:C10)+SUM(D1:D1000)"
Formula51 == "=SUM(A1:A10)+SUM(B1:B10)+SUM(C1:C10)+SUM(D1:D10000)"
FormulaTexts == { "=A1*2", "=a1*2", Formula50, Formula51 }
FormulaLists ==
    UNION { { [i \in 1..n |->
                 [Cell |-> "A" \o ToString(i), Formula |-> Str(t[i]),
                  CalculatedValue |-> None, DataType |-> "Formula"]]
              : t \in [1..n -> FormulaTexts] } : n \in 0..MaxFormulas }

InitStats ==
    /\ Welcome
    /\ sheet = NoSheet /\ metrics = NoMetrics
    /\ formulas \in FormulaLists /\ formula_info = NoFormulaInfo

ShowFormulas ==
    /\ formula_info = NoFormulaInfo
    /\ formula_info' = show_formulas(formulas)
    /\ UNCHANGED <<session, sheet, metrics, formulas>>

NextStats == ShowFormulas
SpecStats == InitStats /\ [][NextStats]_vars

\* ================================================================ claims
\* Positions of a file sheet's grid, and counts taken over them.
Positions(sh) ==
    { <<r, c>> : r \in 1..Len(sh.grid), c \in 1..Len(Columns) }
FormulaPositions(sh) == { p \in Positions(sh) : sh.grid[p[1]][p[2]].f # "" }
LiteralPositions(sh) ==
    { p \in Positions(sh) : sh.grid[p[1]][p[2]].f = "" /\ sh.grid[p[1]][p[2]].v # None }
\* The k-th position in row-major order.
RowMajor(k) == <<((k - 1) \div Len(Columns)) + 1, ((k - 1) % Len(Columns)) + 1>>

\* The records the extraction is specified to yield for a file sheet.
ExpectedRecords(sh) ==
    LET n == Len(sh.grid) * Len(Columns)
        all == [k \in 1..n |->
                  LET p == RowMajor(k)
                      fc == sh.grid[p[1]][p[2]]
                  IN [Cell |-> Columns[p[2]] \o ToString(p[1]),
                      Formula |-> Str(fc.f),
                      CalculatedValue |-> fc.v,
                      DataType |-> "Formula"]]
    IN SelectSeq(all, LAMBDA rec : rec.Formula.v # "")

\* C1: in every tab that shows data, the formula listing holds exactly one
\* record per formula cell of the sheet, in row-major order, each with the
\* cell's location, formula text and cached value.
C1_FormulaRecords ==
    \A s \in 1..Len(tabs) :
        tabs[s].status = "shown" =>
            tabs[s].formula_info.formulas = ExpectedRecords(uploaded_file.sheets[s])

\* C2: the complexity score of an analysed sheet is
\* (formulaCount * 2 + literalCount) / max(1, rows * columns of the
\* DataFrame) * 100, with both counts taken over the sheet's cells.
C2_ComplexityScore ==
    metrics # NoMetrics =>
        LET F == Cardinality(FormulaPositions(sheet))
            L == Cardinality(LiteralPositions(sheet))
            df == DataFrame(sheet)
            slots == Len(df.values) * Len(df.columns)
        IN /\ metrics.status = "shown"
           /\ metrics.formulas = F
           /\ metrics.data_cells = L
           /\ metrics.score.den # 0
           /\ metrics.score.num * (IF slots = 0 THEN 1 ELSE slots)
                 = (F * 2 + L) * 100 * metrics.score.den
C2_Witness ==
    /\ metrics.status = "shown"
    /\ metrics.formulas >= 2 /\ metrics.data_cells >= 1
    /\ Len(DataFrame(sheet).values) * Len(DataFrame(sheet).columns) >= 2

ZeroByZero(df) == Len(df.values) = 0 /\ Len(df.columns) = 0

\* C3 as stated: whenever the DataFrame has zero rows and zero columns the
\* analysis gives score 0 and zero formula and literal counts, without a
\* division error.
C3_EmptyViewAllZero ==
    (metrics # NoMetrics /\ ZeroByZero(DataFrame(sheet))) =>
        /\ metrics.status = "shown"
        /\ metrics.score.den # 0 /\ metrics.score.num = 0
        /\ metrics.formulas = 0 /\ metrics.data_cells = 0

\* C3 amended: with a zero-by-zero DataFrame the analysis raises no division
\* error, the denominator is floored to 1 and the score is
\* (formulaCount * 2 + literalCount) * 100; for a sheet with no cells the
\* score and every count are 0.
C3_EmptyViewFloor ==
    (metrics # NoMetrics /\ ZeroByZero(DataFrame(sheet))) =>
        /\ metrics.status = "shown"
        /\ metrics.total_cells = 0
        /\ metrics.score.den = 1
        /\ metrics.score.num
              = (Cardinality(FormulaPositions(sheet)) * 2
                   + Cardinality(LiteralPositions(sheet))) * 100
        /\ sheet.grid = <<>> =>
              /\ metrics.score.num = 0
              /\ metrics.formulas = 0 /\ metrics.data_cells = 0
              /\ metrics.empty_count = 0
C3_Witness ==
    /\ metrics.status = "shown" /\ sheet.grid = <<>>
    /\ ZeroByZero(DataFrame(sheet)) /\ metrics.score = [num |-> 0, den |-> 1]

FirstOccurrences(fs) ==
    { i \in 1..Len(fs) : \A j \in 1..(i - 1) : fs[j].Formula.v # fs[i].Formula.v }
NotComplex(fs) == { i \in 1..Len(fs) : Len(fs[i].Formula.v) <= 50 }

C5_SheetFailureIsolated ==
    (uploaded_file.kind = "ok" /\ button = NoButton) =>
        /\ ~workbook.none
        /\ errors = <<>>
        /\ Len(tabs) = Len(uploaded_file.sheets)
        /\ \A s \in 1..Len(tabs) :
              /\ tabs[s].sheet_name = uploaded_file.sheets[s].name
              /\ IF uploaded_file.sheets[s].malformed
                 THEN tabs[s].status = "This sheet is empty"
                 ELSE tabs[s].status = "shown"
                         <=> ~DfEmpty(DataFrame(uploaded_file.sheets[s]))

\* C6: after a failed load the error is reported, the load was tried once,
\* and the run shows no macro information, no tab and no download.
C6_LoadFailureAborts ==
    (uploaded_file # NoFile /\ (uploaded_file.kind # "ok" \/ workbook.none)) =>
        /\ workbook.none /\ sheet_names.none /\ excel_data.none
        /\ errors = <<"Error loading Excel file">>
        /\ load_calls = 1
        /\ macro_info = ""
        /\ tabs = <<>>
        /\ download_link = NoLink /\ sheet_link = NoLink
        /\ button = NoButton
C6_Witness ==
    /\ uploaded_file.kind \in {"corrupt", "empty", "protected"}
    /\ workbook.none /\ errors # <<>> /\ load_calls = 1

\* C7: the file behind the full download, loaded again, has the same sheet
\* names in the same order, the same cell type tags and formula text, the
\* same cached values and the same macro payload as the uploaded one.
C7_RoundTrip ==
    ~download_link.none =>
        LET g == Package(download_link.download, download_link.data)
        IN /\ ~Raises(g)
           /\ load_excel_file(g).sheet_names = sheet_names
           /\ load_excel_file(g).workbook.worksheets = workbook.worksheets
           /\ load_excel_file(g).excel_data = excel_data
           /\ g.vba = uploaded_file.vba

\* C8: the file behind a single-sheet download has no formula cell and no
\* macro payload.
C8_SheetExportValuesOnly ==
    ~sheet_link.none =>
        LET g == Package(sheet_link.download, sheet_link.data)
        IN /\ g.vba = NoVba
           /\ \A s \in 1..Len(g.sheets) :
                 \A r \in 1..Len(g.sheets[s].grid) :
                    \A c \in 1..Len(g.sheets[s].grid[r]) :
                       g.sheets[s].grid[r][c].f = ""

\* C9: the full download is typed macro-enabled exactly when the uploaded
\* workbook carries a macro payload.
C9_FormatFollowsMacroPayload ==
    ~download_link.none =>
        (download_link.mime = XLSM <=> uploaded_file.vba # NoVba)

RetrySucceeds == ClickDownloadComplete /\ ~download_link'.none

\* C10: a run started by "Download Complete File" either renders a link
\* holding the complete written workbook, or reports the error and renders
\* no link; after a failure the workbook is as loaded and the same download
\* can be pressed again and succeed.
C10_AllOrNothing ==
    button.kind = "complete" =>
        IF download_link.none
        THEN /\ errors = <<"Error creating download link">>
             /\ workbook = load_workbook(uploaded_file)
             /\ ENABLED RetrySucceeds
        ELSE /\ errors = <<>>
             /\ download_link.data = Parts(workbook)
             /\ Len(download_link.data) >= Len(sheet_names.items)
C10_Witness ==
    /\ button.kind = "complete" /\ download_link.none
    /\ Len(sheet_names.items) = 2
    /\ errors = <<"Error creating download link">>

====
